---- MODULE Spec2Model ----
(***************************************************************************)
(* A model of the file-backed object store (models/base.py), the User and  *)
(* UserSession entities, the /users endpoints and the before_request gate  *)
(* (api/v1/app.py) of alx-backend-user-data.                               *)
(*                                                                         *)
(* Python values are modelled as strings: None is the string None below,   *)
(* a non-string value (an int, a list) is a member of NonStrings. A        *)
(* datetime is an integer count of clock ticks; its formatted form is a    *)
(* string of the table TsString, one entry per whole second.               *)
(***************************************************************************)
EXTENDS Integers, Sequences, FiniteSets, TLC

\* ------------------------------------------------------------------ bounds

\* The clock runs from 0 to MaxTime ticks.
MaxTime == 2
\* Sub-second resolution of the clock: ticks per second.
TicksPerSecond == 2
\* How many uuid4 values the process draws.
MaxUuids == 2

\* ------------------------------------------------------------ Python values

None == "None"
\* Values that are not instances of str (isinstance(v, str) is False).
NonStrings == {None, "<int 7>"}
IsStr(v) == v \notin NonStrings
\* Python truthiness of None / str values.
Truthy(v) == v /= None /\ v /= ""

EmptyDict == [k \in {} |-> None]
DictGet(d, k) == IF k \in DOMAIN d THEN d[k] ELSE None
DictSet(d, k, v) == [x \in (DOMAIN d) \cup {k} |-> IF x = k THEN v ELSE d[x]]
DictDel(d, k) == [x \in (DOMAIN d) \ {k} |-> d[x]]

\* uuid.uuid4(): the n-th value drawn; distinct draws give distinct values.
UuidSeq == <<"uuid-1", "uuid-2", "uuid-3", "uuid-4">>
uuid4(n) == UuidSeq[n + 1]

\* hashlib.sha256(pwd.encode()).hexdigest().lower(), leading 12 hex digits.
sha256(pwd) ==
    CASE pwd = "secret" -> "2bb80d537b1d"
      [] pwd = "wrong"  -> "8810ad581e59"
      [] pwd = ""       -> "e3b0c44298fc"

\* TIMESTAMP_FORMAT = "%Y-%m-%dT%H:%M:%S": one string per whole second.
TsString == << "1970-01-01T00:00:00", "1970-01-01T00:00:01",
               "1970-01-01T00:00:02", "1970-01-01T00:00:03",
               "1970-01-01T00:00:04", "1970-01-01T00:00:05" >>
\* datetime.strftime(TIMESTAMP_FORMAT): the sub-second part is dropped.
strftime(t) == TsString[(t \div TicksPerSecond) + 1]
\* datetime.strptime(s, TIMESTAMP_FORMAT) of a well-formed string.
strptime(s) ==
    (CHOOSE i \in 1..Len(TsString) : TsString[i] = s) * TicksPerSecond
        - TicksPerSecond

\* ---------------------------------------------------------------- entities

Classes == {"User", "UserSession"}
DatetimeKeys == {"created_at", "updated_at"}
PrivateKeys == {"_password"}

\* Base._parse_datetime (0x02): falsy date_str gives utcnow().
_parse_datetime(date_str, t) ==
    IF Truthy(date_str) THEN strptime(date_str) ELSE t

\* Whether datetime.strptime(date_str, TIMESTAMP_FORMAT) raises ValueError.
Malformed(date_str) ==
    Truthy(date_str) /\ date_str \notin {TsString[i] : i \in 1..Len(TsString)}
\* Whether Base.__init__ raises on these kwargs: a timestamp does not parse.
InitRaises(kwargs) ==
    \/ Malformed(DictGet(kwargs, "created_at"))
    \/ Malformed(DictGet(kwargs, "updated_at"))

\* The timestamp string the kwargs hand to _parse_datetime: created_at,
\* or updated_at when no created_at is given, None when neither is.
GivenTimestamp(kwargs) ==
    IF Truthy(DictGet(kwargs, "created_at"))
    THEN DictGet(kwargs, "created_at")
    ELSE DictGet(kwargs, "updated_at")

\* Base.__init__ that draws a new id whatever the kwargs say.
Base__init__NewId(kwargs, uuid, t) ==
    [id         |-> uuid,
     created_at |-> _parse_datetime(DictGet(kwargs, "created_at"), t),
     updated_at |-> _parse_datetime(DictGet(kwargs, "updated_at"), t)]

\* Base.__init__: id, created_at, updated_at from kwargs or defaults.
Base__init__(kwargs, uuid, t) ==
    [id         |-> IF "id" \in DOMAIN kwargs THEN kwargs["id"] ELSE uuid,
     created_at |-> _parse_datetime(DictGet(kwargs, "created_at"), t),
     updated_at |-> _parse_datetime(DictGet(kwargs, "updated_at"), t)]

\* The constructor with kwargs.get('password') stored as given.
User__init__Plain(kwargs, uuid, t) ==
    LET b == Base__init__(kwargs, uuid, t) IN
    [id |-> b.id, created_at |-> b.created_at, updated_at |-> b.updated_at,
     email      |-> DictGet(kwargs, "email"),
     _password  |-> DictGet(kwargs, "password"),
     first_name |-> DictGet(kwargs, "first_name"),
     last_name  |-> DictGet(kwargs, "last_name")]

\* User.__init__: only the keys email, _password, first_name, last_name
\* are read; a 'password' key is not.
User__init__(kwargs, uuid, t) ==
    LET b == Base__init__(kwargs, uuid, t) IN
    [id |-> b.id, created_at |-> b.created_at, updated_at |-> b.updated_at,
     email      |-> DictGet(kwargs, "email"),
     _password  |-> DictGet(kwargs, "_password"),
     first_name |-> DictGet(kwargs, "first_name"),
     last_name  |-> DictGet(kwargs, "last_name")]

\* UserSession.__init__ that does not read session_id from the kwargs.
UserSession__init__NoSession(kwargs, uuid, t) ==
    LET b == Base__init__(kwargs, uuid, t) IN
    [id |-> b.id, created_at |-> b.created_at, updated_at |-> b.updated_at,
     user_id    |-> DictGet(kwargs, "user_id"),
     session_id |-> None]

\* UserSession.__init__
UserSession__init__(kwargs, uuid, t) ==
    LET b == Base__init__(kwargs, uuid, t) IN
    [id |-> b.id, created_at |-> b.created_at, updated_at |-> b.updated_at,
     user_id    |-> DictGet(kwargs, "user_id"),
     session_id |-> DictGet(kwargs, "session_id")]

\* cls(**kwargs)
New(cls, kwargs, uuid, t) ==
    IF cls = "User" THEN User__init__(kwargs, uuid, t)
                    ELSE UserSession__init__(kwargs, uuid, t)

\* User.password setter: the SHA-256 digest of a str, None otherwise.
password_setter(o, pwd) ==
    [o EXCEPT !["_password"] = IF IsStr(pwd) THEN sha256(pwd) ELSE None]

\* The check comparing the candidate itself with the stored value.
is_valid_passwordPlain(o, pwd) ==
    IF ~IsStr(pwd) \/ o["_password"] = None
    THEN FALSE
    ELSE pwd = o["_password"]

\* User.is_valid_password
is_valid_password(o, pwd) ==
    IF ~IsStr(pwd) \/ o["_password"] = None
    THEN FALSE
    ELSE sha256(pwd) = o["_password"]

\* display_name answering with the email whenever there is one.
display_nameEmailFirst(a, o) ==
    LET e == o["email"]  f == o["first_name"]  l == o["last_name"] IN
    IF Truthy(e) THEN e
    ELSE IF Truthy(f) /\ Truthy(l) THEN f \o " " \o l
    ELSE IF Truthy(f) THEN f
    ELSE IF Truthy(l) THEN l
    ELSE ""

\* display_name whose 0x02 version puts the last name first when both names
\* are there.
display_nameSwapped(a, o) ==
    LET e == o["email"]  f == o["first_name"]  l == o["last_name"] IN
    IF Truthy(f) /\ Truthy(l)
    THEN IF a = "0x01" THEN f \o " " \o l ELSE l \o " " \o f
    ELSE IF Truthy(f) THEN f
    ELSE IF Truthy(l) THEN l
    ELSE IF Truthy(e) THEN e
    ELSE ""

\* User.display_name of application a ("0x01" or "0x02"), each branch in
\* the order of its source.
display_name(a, o) ==
    LET e == o["email"]  f == o["first_name"]  l == o["last_name"] IN
    IF a = "0x01"
    THEN IF Truthy(f) /\ Truthy(l) THEN f \o " " \o l
         ELSE IF Truthy(f) THEN f
         ELSE IF Truthy(l) THEN l
         ELSE IF Truthy(e) THEN e
         ELSE ""
    ELSE IF Truthy(e) /\ ~Truthy(f) /\ ~Truthy(l) THEN e
         ELSE IF Truthy(f) /\ ~Truthy(l) THEN f
         ELSE IF Truthy(l) /\ ~Truthy(f) THEN l
         ELSE IF Truthy(f) /\ Truthy(l) THEN f \o " " \o l
         ELSE ""

\* to_json that never includes the private keys.
to_jsonPublic(o, for_serialization) ==
    [k \in {x \in DOMAIN o : x \notin PrivateKeys} |->
        IF k \in DatetimeKeys THEN strftime(o[k]) ELSE o[k]]

\* Base.to_json: private keys only when for_serialization, datetimes
\* formatted.
to_json(o, for_serialization) ==
    [k \in {x \in DOMAIN o : for_serialization \/ x \notin PrivateKeys} |->
        IF k \in DatetimeKeys THEN strftime(o[k]) ELSE o[k]]

\* ------------------------------------------------------------------- state

VARIABLES
    DATA,       \* base.DATA: class name -> (id -> object), classes added lazily
    files,      \* .db_<Class>.json: whether it exists and its JSON object
    now,        \* datetime.utcnow(), in ticks
    uuids,      \* how many uuid4 values have been drawn
    cur,        \* the object a caller of the model classes holds, if any
    curStored,  \* whether cur is the very object DATA holds under cur.id
    plain,      \* the password the constructor or the setter was just handed
    last,       \* the operation that ran last and what it answered
    app,        \* which application runs: "0x01" or "0x02" (api/v1/app.py)
    auth,       \* the strategy AUTH_TYPE selected at import, None for none
    sessions,   \* the session strategy's map session id -> user id
    request,    \* the request the gate handled last and what became of it
    peer        \* base.DATA of a second process that shares the files

vars == <<DATA, files, now, uuids, cur, curStored, plain, last,
          app, auth, sessions, request, peer>>
\* What the entity operations and the /users handlers of this process
\* leave alone.
gateVars == <<app, auth, sessions, request, peer>>

NoFile == [exists |-> FALSE, content |-> EmptyDict]
NoCur == [cls |-> None, o |-> EmptyDict]
NoPlain == [via |-> "none", pwd |-> None]
\* What request.current_user and the strategy's answer are before the gate
\* sets or asks for them.
Unset == "<unset>"
NotInvoked == "<not invoked>"
NoRequest == [path |-> None, authorization |-> None, cookie |-> None,
              status |-> None, current_user |-> Unset, resolved |-> NotInvoked]
\* `after` is set by load_from_file alone: "save" when the operation before
\* it was a save of the same class. `raised` names the exception that left
\* the operation, None when it returned; `caught` the exception an except
\* clause of the operation handled, None when there was none.
Op(op, cls, id, arg, res) ==
    [op |-> op, cls |-> cls, id |-> id, arg |-> arg, res |-> res,
     after |-> None, raised |-> None, caught |-> None]
\* The operation answered res after its except clause handled exc.
Caught(op, cls, id, arg, res, exc) ==
    [Op(op, cls, id, arg, res) EXCEPT !.caught = exc]
\* The operation op of class cls was left by the exception exc.
Raised(op, cls, id, arg, exc) ==
    [Op(op, cls, id, arg, None) EXCEPT !.raised = exc]

\* DATA.setdefault(s_class, {}) of Base.__init__
EnsureClass(D, cls) == IF cls \in DOMAIN D THEN D ELSE DictSet(D, cls, EmptyDict)

\* save_to_file that keeps the records of the file that are not in the map.
save_to_fileMerge(D, F, cls) ==
    [F EXCEPT ![cls] =
        [exists  |-> TRUE,
         content |-> [id \in (DOMAIN F[cls].content) \cup (DOMAIN D[cls]) |->
                        IF id \in DOMAIN D[cls]
                        THEN to_json(D[cls][id], TRUE)
                        ELSE F[cls].content[id]]]]

\* Base.save_to_file: the whole map of the class, every object serialized.
save_to_file(D, F, cls) ==
    [F EXCEPT ![cls] =
        [exists  |-> TRUE,
         content |-> [id \in DOMAIN D[cls] |-> to_json(D[cls][id], TRUE)]]]

\* save that does not write the file.
saveNoWrite(D, F, cls, o, t) ==
    LET o2 == [o EXCEPT !["updated_at"] = t] IN
    [DATA |-> [D EXCEPT ![cls] = DictSet(D[cls], o2["id"], o2)],
     files |-> F, obj |-> o2]

\* Base.save: refresh updated_at, store under the id, write the file.
save(D, F, cls, o, t) ==
    LET o2 == [o EXCEPT !["updated_at"] = t]
        D2 == [D EXCEPT ![cls] = DictSet(D[cls], o2["id"], o2)]
    IN  [DATA |-> D2, files |-> save_to_file(D2, F, cls), obj |-> o2]

\* A failing save that takes the object out of the map again.
save_unwritableRollback(D, F, cls, o, t) ==
    LET o2 == [o EXCEPT !["updated_at"] = t] IN
    [DATA |-> [D EXCEPT ![cls] = DictDel(D[cls], o2["id"])],
     files |-> F, obj |-> o2]

\* Base.save when open(file_path, 'w') of save_to_file raises OSError: the
\* object is already in the map, the file is as it was, the error leaves
\* save.
save_unwritable(D, F, cls, o, t) ==
    LET o2 == [o EXCEPT !["updated_at"] = t]
        D2 == [D EXCEPT ![cls] = DictSet(D[cls], o2["id"], o2)]
    IN  [DATA |-> D2, files |-> F, obj |-> o2]

\* remove that rewrites the file without deleting the entry.
removeKeep(D, F, cls, o) ==
    IF o["id"] \in DOMAIN D[cls]
    THEN [DATA |-> D, files |-> save_to_file(D, F, cls)]
    ELSE [DATA |-> D, files |-> F]

\* remove that also deletes the sessions of a removed user.
removeCascade(D, F, cls, o) ==
    IF o["id"] \in DOMAIN D[cls]
    THEN LET D2 == [D EXCEPT ![cls] = DictDel(D[cls], o["id"])]
             F2 == save_to_file(D2, F, cls)
         IN  IF cls = "User" /\ "UserSession" \in DOMAIN D2
             THEN LET kept == {sid \in DOMAIN D2["UserSession"] :
                                D2["UserSession"][sid]["user_id"] /= o["id"]}
                      D3 == [D2 EXCEPT !["UserSession"] =
                                [sid \in kept |-> D2["UserSession"][sid]]]
                  IN  [DATA |-> D3,
                       files |-> IF kept = DOMAIN D2["UserSession"] THEN F2
                                 ELSE save_to_file(D3, F2, "UserSession")]
             ELSE [DATA |-> D2, files |-> F2]
    ELSE [DATA |-> D, files |-> F]

\* Base.remove: delete the id if present and write the file, else nothing.
remove(D, F, cls, o) ==
    IF o["id"] \in DOMAIN D[cls]
    THEN LET D2 == [D EXCEPT ![cls] = DictDel(D[cls], o["id"])]
         IN  [DATA |-> D2, files |-> save_to_file(D2, F, cls)]
    ELSE [DATA |-> D, files |-> F]

\* The position of a record in the JSON object of a file: json.dump keeps
\* the insertion order of the map and json.load the order of the file. The
\* ids are drawn in the order of UuidSeq, and where files with malformed
\* records are read every entity is stored in the order it was built.
IdIndex(id) == CHOOSE i \in 1..Len(UuidSeq) : UuidSeq[i] = id
\* The records whose constructor raises ValueError.
BadRecords(F, cls) ==
    {id \in DOMAIN F[cls].content : InitRaises(F[cls].content[id])}
\* A load that leaves out the records that do not parse and goes on.
LoadedSkipBad(a, F, cls) == DOMAIN F[cls].content \ BadRecords(F, cls)

\* The records load_from_file of application a has put in the map when it
\* returns or raises: 0x02 fills the map record by record and stops at the
\* first that raises, 0x01 assigns the whole map or nothing.
Loaded(a, F, cls) ==
    LET bad == BadRecords(F, cls) IN
    IF bad = {} THEN DOMAIN F[cls].content
    ELSE IF a = "0x01" THEN {}
    ELSE {id \in DOMAIN F[cls].content :
            \A b \in bad : IdIndex(id) < IdIndex(b)}

\* load_from_file that returns before reading the file.
load_from_fileSkip(a, D, F, cls, uuid, t) ==
    DictSet(D, cls, EmptyDict)

\* Base.load_from_file: the map is emptied, then filled from the file
\* when the file exists.
load_from_file(a, D, F, cls, uuid, t) ==
    LET D1 == DictSet(D, cls, EmptyDict) IN
    IF ~F[cls].exists THEN D1
    ELSE [D1 EXCEPT ![cls] =
            [id \in Loaded(a, F, cls) |->
                New(cls, F[cls].content[id], uuid, t)]]

\* Base.get of a class that has a map
get(D, cls, id) == DictGet(D[cls], id)
\* Base.count
count(D, cls) == Cardinality(DOMAIN D[cls])

\* Whether get, count and search of application a raise KeyError: 0x02
\* indexes DATA[cls.__name__], 0x01 reads DATA.get(cls.__name__, {}).
KeyErrors(a, D, cls) == a = "0x02" /\ cls \notin DOMAIN D
\* The map get, count and search read when they do not raise.
MapOf(D, cls) == IF cls \in DOMAIN D THEN D[cls] ELSE EmptyDict

\* search returning the objects that match on some attribute.
searchAny(a, D, cls, attributes) ==
    [raised |-> IF KeyErrors(a, D, cls) THEN "KeyError" ELSE None,
     found  |-> {MapOf(D, cls)[id] : id \in
                    {i \in DOMAIN MapOf(D, cls) :
                        \E k \in DOMAIN attributes :
                            MapOf(D, cls)[i][k] = attributes[k]}}]

\* Base.search (Base.all is search with no attributes): the objects of the
\* map with getattr(obj, k) == v for every item of attributes.
search(a, D, cls, attributes) ==
    [raised |-> IF KeyErrors(a, D, cls) THEN "KeyError" ELSE None,
     found  |-> {MapOf(D, cls)[id] : id \in
                    {i \in DOMAIN MapOf(D, cls) :
                        \A k \in DOMAIN attributes :
                            MapOf(D, cls)[i][k] = attributes[k]}}]

\* ------------------------------------------------------------------ inputs

Emails == {"a@b.com"}
Passwords == {"secret", "wrong", ""}
\* What a caller may hand to is_valid_password, and to the password setter.
PasswordValues == Passwords \cup NonStrings
SetterValues == {"secret", ""} \cup NonStrings
\* Keyword arguments of User(...) as the callers in the repository give them.
UserKwargs ==
    { [email |-> e, password |-> p, first_name |-> None, last_name |-> None] :
        e \in Emails, p \in {"secret", "wrong"} }
SessionKwargs == { [user_id |-> "uuid-1", session_id |-> "sid-1"] }
\* JSON bodies of POST /users
CreateBodies ==
    { EmptyDict,
      [password |-> "secret"],
      [email |-> "a@b.com"],
      [email |-> "a@b.com", password |-> "secret"],
      [email |-> "a@b.com", password |-> "secret", first_name |-> "Bob"] }
\* JSON bodies of PUT /users/:id
UpdateBodies ==
    { EmptyDict, [first_name |-> "Bob"], [last_name |-> "Lee"],
      [first_name |-> None, last_name |-> "Lee"] }
\* Ids a request may name: the ids drawn so far and one that never exists.
RequestIds == {uuid4(i) : i \in 0..(MaxUuids - 1)} \cup {"no-such-id"}

\* ----------------------------------------------------------------- actions

Init ==
    /\ DATA = EmptyDict
    /\ files = [c \in Classes |-> NoFile]
    /\ now = 0
    /\ uuids = 0
    /\ cur = NoCur
    /\ curStored = FALSE
    /\ plain = NoPlain
    /\ last = Op("init", None, None, None, None)
    /\ app = "0x02"
    /\ auth = None
    /\ sessions = EmptyDict
    /\ request = NoRequest
    /\ peer = EmptyDict

\* Whether the held object is the object DATA holds under (cls, id).
Held(cls, id) == curStored /\ cur.cls = cls /\ cur.o["id"] = id

\* The clock advances, up to the tick `limit`.
TickTo(limit) ==
    /\ now < limit
    /\ now' = now + 1
    /\ last' = Op("tick", None, None, None, None)
    /\ plain' = NoPlain
    /\ UNCHANGED <<DATA, files, uuids, cur, curStored, gateVars>>

\* The clock advances.
Tick == TickTo(MaxTime)

\* u = User(email=..., password=..., first_name=..., last_name=...); when a
\* timestamp among the kwargs does not parse, ValueError leaves the
\* constructor after the class got its map and u is not assigned.
NewUser(kwargs) ==
    /\ uuids < MaxUuids
    /\ IF InitRaises(kwargs)
       THEN /\ last' = Raised("new", "User", None, GivenTimestamp(kwargs),
                              "ValueError")
            /\ plain' = NoPlain
            /\ UNCHANGED <<cur, curStored>>
       ELSE /\ LET o == User__init__(kwargs, uuid4(uuids), now) IN
                 /\ cur' = [cls |-> "User", o |-> o]
                 /\ last' = Op("new", "User", None, GivenTimestamp(kwargs),
                               None)
            /\ curStored' = FALSE
            /\ plain' = [via |-> "ctor", pwd |-> DictGet(kwargs, "password")]
    /\ DATA' = EnsureClass(DATA, "User")
    /\ uuids' = uuids + 1
    /\ UNCHANGED <<files, now, gateVars>>

\* s = UserSession(user_id=..., session_id=...)
NewUserSession(kwargs) ==
    /\ uuids < MaxUuids
    /\ LET o == UserSession__init__(kwargs, uuid4(uuids), now) IN
        /\ cur' = [cls |-> "UserSession", o |-> o]
        /\ last' = Op("new", "UserSession", None, None, None)
    /\ DATA' = EnsureClass(DATA, "UserSession")
    /\ uuids' = uuids + 1
    /\ curStored' = FALSE
    /\ plain' = NoPlain
    /\ UNCHANGED <<files, now, gateVars>>

\* u.password = pwd
SetPassword(pwd) ==
    /\ cur.cls = "User"
    /\ LET o == password_setter(cur.o, pwd) IN
        /\ cur' = [cur EXCEPT !.o = o]
        /\ DATA' = IF curStored
                   THEN [DATA EXCEPT !["User"] = DictSet(@, o["id"], o)]
                   ELSE DATA
    /\ plain' = [via |-> "setter", pwd |-> pwd]
    /\ last' = Op("set_password", "User", None, pwd, "ok")
    /\ UNCHANGED <<files, now, uuids, curStored, gateVars>>

\* u.is_valid_password(pwd)
CheckPassword(pwd) ==
    /\ cur.cls = "User"
    /\ last' = Op("is_valid_password", "User", None, pwd,
                  IF is_valid_password(cur.o, pwd) THEN "True" ELSE "False")
    /\ UNCHANGED <<DATA, files, now, uuids, cur, curStored, plain,
                   gateVars>>

\* e.save()
Save ==
    /\ cur.cls /= None
    /\ LET r == save(DATA, files, cur.cls, cur.o, now) IN
        /\ DATA' = r.DATA
        /\ files' = r.files
        /\ cur' = [cur EXCEPT !.o = r.obj]
    /\ curStored' = TRUE
    /\ last' = Op("save", cur.cls, None,
                  IF cur.o["id"] \in DOMAIN DATA[cur.cls]
                  THEN "present" ELSE "absent", "ok")
    /\ plain' = NoPlain
    /\ UNCHANGED <<now, uuids, gateVars>>

\* e.save() while the class's file cannot be opened for writing.
SaveUnwritable ==
    /\ cur.cls /= None
    /\ LET r == save_unwritable(DATA, files, cur.cls, cur.o, now) IN
        /\ DATA' = r.DATA
        /\ files' = r.files
        /\ cur' = [cur EXCEPT !.o = r.obj]
    /\ curStored' = TRUE
    /\ last' = Raised("save", cur.cls, None,
                      IF cur.o["id"] \in DOMAIN DATA[cur.cls]
                      THEN "present" ELSE "absent", "OSError")
    /\ plain' = NoPlain
    /\ UNCHANGED <<now, uuids, gateVars>>

\* objs = cls.search(attributes); cls.all() is cls.search()
Search(cls, attributes) ==
    /\ LET r == search(app, DATA, cls, attributes) IN
        last' = [Op("search", cls, None, attributes, r.found)
                    EXCEPT !.raised = r.raised]
    /\ plain' = NoPlain
    /\ UNCHANGED <<DATA, files, now, uuids, cur, curStored, gateVars>>

\* u.display_name()
DisplayName ==
    /\ cur.cls = "User"
    /\ last' = Op("display_name", "User", None, None,
                  display_name(app, cur.o))
    /\ plain' = NoPlain
    /\ UNCHANGED <<DATA, files, now, uuids, cur, curStored, gateVars>>

\* The display_name of both User classes on the field values of the held
\* user: arg is the answer of 0x01, res the answer of 0x02.
DisplayNameBoth ==
    /\ cur.cls = "User"
    /\ last' = Op("display_names", "User", None,
                  display_name("0x01", cur.o), display_name("0x02", cur.o))
    /\ plain' = NoPlain
    /\ UNCHANGED <<DATA, files, now, uuids, cur, curStored, gateVars>>

\* e.remove()
Remove ==
    /\ cur.cls /= None
    /\ LET r == remove(DATA, files, cur.cls, cur.o) IN
        /\ DATA' = r.DATA
        /\ files' = r.files
    /\ curStored' = FALSE
    /\ last' = Op("remove", cur.cls, None,
                  IF cur.o["id"] \in DOMAIN DATA[cur.cls]
                  THEN "present" ELSE "absent", "ok")
    /\ plain' = NoPlain
    /\ UNCHANGED <<now, uuids, cur, gateVars>>

\* e = cls.get(id); KeyError leaves it when the class has no map.
Get(cls, id) ==
    /\ IF KeyErrors(app, DATA, cls)
       THEN /\ last' = Raised("get", cls, id, None, "KeyError")
            /\ UNCHANGED <<cur, curStored>>
       ELSE IF id \notin DOMAIN MapOf(DATA, cls)
       THEN /\ cur' = NoCur
            /\ curStored' = FALSE
            /\ last' = Op("get", cls, id, None, "None")
       ELSE /\ cur' = [cls |-> cls, o |-> get(DATA, cls, id)]
            /\ curStored' = TRUE
            /\ last' = Op("get", cls, id, None, "object")
    /\ plain' = NoPlain
    /\ UNCHANGED <<DATA, files, now, uuids, gateVars>>

\* cls.load_from_file()
LoadFromFile(cls) ==
    /\ DATA' = load_from_file(app, DATA, files, cls, uuid4(uuids), now)
    /\ curStored' = (curStored /\ cur.cls /= cls)
    /\ last' = [Op("load_from_file", cls, None,
                     IF files[cls].exists THEN "file" ELSE "no file",
                     IF BadRecords(files, cls) = {} THEN "ok"
                                                    ELSE "ValueError")
                 EXCEPT !.after = IF last.op = "save" /\ last.cls = cls
                                  THEN "save" ELSE None,
                        !.raised = IF BadRecords(files, cls) = {} THEN None
                                   ELSE "ValueError"]
    /\ plain' = NoPlain
    /\ UNCHANGED <<files, now, uuids, cur, gateVars>>

\* --------------------------------------------------------------- endpoints

\* get_user_by_id: the stored user, "404" when there is none, "KeyError"
\* when the class has no map yet (DATA[cls.__name__] of Base.get).
get_user_by_id(D, user_id) ==
    IF "User" \notin DOMAIN D THEN "KeyError"
    ELSE IF user_id \notin DOMAIN D["User"] THEN "404"
    ELSE "found"

\* GET /users/:id for the request the gate let through: the id "me" reads
\* request.current_user, which no one has set when the gate returned early
\* (AttributeError leaves the handler); any other id goes to get_user_by_id.
view_one_user(user_id) ==
    /\ request.status = "handler"
    /\ request.path = "/api/v1/users/" \o user_id
    /\ IF user_id = "me"
       THEN last' =
              IF request.current_user = Unset
              THEN Raised("view_one_user", "User", user_id, None,
                          "AttributeError")
              ELSE IF request.current_user = None
              THEN Op("view_one_user", "User", user_id, None, "404")
              ELSE Op("view_one_user", "User", user_id,
                      request.current_user, "200")
       ELSE LET found == get_user_by_id(DATA, user_id) IN
            last' =
              IF found = "KeyError"
              THEN Raised("view_one_user", "User", user_id, None, "KeyError")
              ELSE IF found = "404"
              THEN Op("view_one_user", "User", user_id, None, "404")
              ELSE Op("view_one_user", "User", user_id, user_id, "200")
    /\ plain' = NoPlain
    /\ UNCHANGED <<DATA, files, now, uuids, cur, curStored, gateVars>>

\* POST /users with JSON body rj; `writable` is whether the file of User
\* can be opened for writing. Every exception raised inside the try block
\* is answered with 400.
create_user(rj, writable) ==
    IF \/ rj = EmptyDict
       \/ ~Truthy(DictGet(rj, "email"))
       \/ ~Truthy(DictGet(rj, "password"))
    THEN /\ last' = Op("create_user", "User", None, None, "400")
         /\ plain' = NoPlain
         /\ UNCHANGED <<DATA, files, now, uuids, cur, curStored, gateVars>>
    ELSE /\ uuids < MaxUuids
         /\ LET user == User__init__(
                    [email      |-> DictGet(rj, "email"),
                     password   |-> DictGet(rj, "password"),
                     first_name |-> DictGet(rj, "first_name"),
                     last_name  |-> DictGet(rj, "last_name")],
                    uuid4(uuids), now)
                D1 == EnsureClass(DATA, "User")
                r == IF writable
                     THEN save(D1, files, "User", user, now)
                     ELSE save_unwritable(D1, files, "User", user, now)
            IN  /\ DATA' = r.DATA
                /\ files' = r.files
                /\ last' = IF writable
                           THEN Op("create_user", "User", user["id"],
                                   DictGet(rj, "password"), "201")
                           ELSE Caught("create_user", "User", user["id"],
                                       DictGet(rj, "password"), "400",
                                       "OSError")
         /\ uuids' = uuids + 1
         /\ plain' = NoPlain
         /\ UNCHANGED <<now, cur, curStored, gateVars>>

\* The assignments of update_user that copy every key of the body the
\* user has.
set_namesAnyKey(u, rj) ==
    [k \in DOMAIN u |-> IF k \in DOMAIN rj THEN rj[k] ELSE u[k]]

\* update_user, the two assignments: first_name and last_name, each when
\* its key is in the body.
set_names(u, rj) ==
    LET u1 == IF "first_name" \in DOMAIN rj
              THEN [u EXCEPT !["first_name"] = rj["first_name"]] ELSE u
    IN  IF "last_name" \in DOMAIN rj
        THEN [u1 EXCEPT !["last_name"] = rj["last_name"]] ELSE u1

\* PUT /users/:id with JSON body rj; `writable` as for create_user.
update_user(user_id, rj, writable) ==
    LET found == get_user_by_id(DATA, user_id) IN
    IF found /= "found"
    THEN /\ last' = IF found = "KeyError"
                    THEN Raised("update_user", "User", user_id, rj, found)
                    ELSE Op("update_user", "User", user_id, rj, found)
         /\ plain' = NoPlain
         /\ UNCHANGED <<DATA, files, now, uuids, cur, curStored, gateVars>>
    ELSE IF rj = EmptyDict
    THEN /\ last' = Caught("update_user", "User", user_id, rj, "400",
                           "ValueError")
         /\ plain' = NoPlain
         /\ UNCHANGED <<DATA, files, now, uuids, cur, curStored, gateVars>>
    ELSE LET u2 == set_names(get(DATA, "User", user_id), rj)
             r == IF writable THEN save(DATA, files, "User", u2, now)
                  ELSE save_unwritable(DATA, files, "User", u2, now)
         IN  /\ DATA' = r.DATA
             /\ files' = r.files
             /\ cur' = IF Held("User", user_id)
                       THEN [cur EXCEPT !.o = r.obj] ELSE cur
             /\ last' = IF writable
                        THEN Op("update_user", "User", user_id, rj, "200")
                        ELSE Caught("update_user", "User", user_id, rj,
                                    "400", "OSError")
             /\ plain' = NoPlain
             /\ UNCHANGED <<now, uuids, curStored, gateVars>>

\* DELETE /users/:id
delete_user(user_id) ==
    LET found == get_user_by_id(DATA, user_id) IN
    IF found /= "found"
    THEN /\ last' = IF found = "KeyError"
                    THEN Raised("delete_user", "User", user_id, None, found)
                    ELSE Op("delete_user", "User", user_id, None, found)
         /\ plain' = NoPlain
         /\ UNCHANGED <<DATA, files, now, uuids, cur, curStored, gateVars>>
    ELSE LET r == remove(DATA, files, "User", get(DATA, "User", user_id)) IN
         /\ DATA' = r.DATA
         /\ files' = r.files
         /\ curStored' = (curStored /\ ~Held("User", user_id))
         /\ last' = Op("delete_user", "User", user_id, None, "200")
         /\ plain' = NoPlain
         /\ UNCHANGED <<now, uuids, cur, gateVars>>

\* ---------------------------------------------------------- authentication

\* The strategies AUTH_TYPE selects in each application.
AuthTypes(a) ==
    IF a = "0x01" THEN {"auth", "basic_auth"}
    ELSE {"auth", "basic_auth", "session_auth"}

\* The excluded_paths / excluded_list literal of each handle_auth.
ExcludedPaths(a) ==
    IF a = "0x01"
    THEN {"/api/v1/status/", "/api/v1/unauthorized/", "/api/v1/forbidden/"}
    ELSE {"/api/v1/status/", "/api/v1/unauthorized/", "/api/v1/forbidden/",
          "/api/v1/auth_session/login/"}

\* Auth.require_auth: true unless the path is one of the excluded entries
\* (no entry of either list ends in '*'); never true for the base strategy.
require_auth(strategy, path, excluded) ==
    IF strategy = "auth" THEN FALSE ELSE path \notin excluded

\* Auth.authorization_header: the Authorization header, None when absent.
authorization_header(req) == req.authorization
\* Auth.session_cookie: the cookie named by SESSION_NAME, None when absent.
session_cookie(req) == req.cookie

\* BasicAuth: the "email:password" a header "Basic <base64>" decodes to;
\* None for a header that is absent, not Basic or not decodable.
BasicCredentials(header) ==
    CASE header = "Basic YUBiLmNvbTpzZWNyZXQ=" ->
            [email |-> "a@b.com", pwd |-> "secret"]
      [] header = "Basic YUBiLmNvbTp3cm9uZw==" ->
            [email |-> "a@b.com", pwd |-> "wrong"]
      [] OTHER -> [email |-> None, pwd |-> None]

\* The ids of the stored users.
UserIds(D) == IF "User" \in DOMAIN D THEN DOMAIN D["User"] ELSE {}

\* current_user of each strategy: the ids of the users it may answer with,
\* {None} when it resolves nobody. BasicAuth answers with a user found by
\* email whose password digest matches; SessionAuth with the user the
\* session id of the cookie maps to.
current_user(strategy, req, D, S) ==
    CASE strategy = "basic_auth" ->
            LET c == BasicCredentials(authorization_header(req))
                found == {id \in UserIds(D) :
                            /\ D["User"][id]["email"] = c.email
                            /\ is_valid_password(D["User"][id], c.pwd)}
            IN  IF c.email = None \/ found = {} THEN {None} ELSE found
      [] strategy = "session_auth" ->
            LET sid == session_cookie(req) IN
            IF sid \in DOMAIN S /\ S[sid] \in UserIds(D)
            THEN {S[sid]} ELSE {None}
      [] OTHER -> {None}

\* SessionAuth.create_session: a new session id mapped to the user id.
create_session(S, user_id, sid) == DictSet(S, sid, user_id)

\* destroy_session that answers True without touching the map.
destroy_sessionKeep(S, req) ==
    LET sid == session_cookie(req) IN
    IF sid \in DOMAIN S THEN [ok |-> TRUE, S |-> S]
                         ELSE [ok |-> FALSE, S |-> S]

\* SessionAuth.destroy_session: the mapping of the request's session id is
\* removed; False, and nothing removed, when the request has no session id
\* that maps to a user.
destroy_session(S, req) ==
    LET sid == session_cookie(req) IN
    IF sid \in DOMAIN S THEN [ok |-> TRUE, S |-> DictDel(S, sid)]
                         ELSE [ok |-> FALSE, S |-> S]

\* SESSION_DURATION, in seconds, and in ticks of the clock.
DurationSeconds == 1
session_duration == DurationSeconds * TicksPerSecond

\* SessionDBAuth.create_session: the mapping is a UserSession entity, saved.
db_create_session(D, F, user_id, sid, uuid, t) ==
    save(EnsureClass(D, "UserSession"), F, "UserSession",
         UserSession__init__([user_id |-> user_id, session_id |-> sid],
                             uuid, t), t)

\* The UserSession entities that carry the session id and are not older
\* than the duration at time t.
db_valid_sessions(D, sid, t) ==
    IF ~Truthy(sid) THEN {}
    ELSE {e \in search("0x02", D, "UserSession", [session_id |-> sid]).found :
            t - e["created_at"] <= session_duration}

\* SessionDBAuth.current_user: the user of a valid session of the cookie,
\* fetched by id; {None} when there is none.
db_current_user(req, D, t) ==
    LET who == {e["user_id"] : e \in db_valid_sessions(D, session_cookie(req), t)}
                 \cap UserIds(D)
    IN  IF who = {} THEN {None} ELSE who

\* SessionDBAuth.destroy_session: the entities of the request's valid
\* session are removed from the store; False when there is none.
db_destroy_session(D, F, req, t) ==
    LET found == db_valid_sessions(D, session_cookie(req), t) IN
    IF found = {} THEN [ok |-> FALSE, DATA |-> D, files |-> F]
    ELSE LET e == CHOOSE x \in found : TRUE
             r == remove(D, F, "UserSession", e)
         IN  [ok |-> TRUE, DATA |-> r.DATA, files |-> r.files]

\* The 0x02 gate with "or" for "and": both credentials are required.
handle_authBoth(strategy, req, who) ==
    IF strategy = None THEN
        [status |-> "handler", current_user |-> Unset, resolved |-> NotInvoked]
    ELSE IF ~require_auth(strategy, req.path, ExcludedPaths("0x02")) THEN
        [status |-> "handler", current_user |-> Unset, resolved |-> NotInvoked]
    ELSE IF ~Truthy(authorization_header(req))
            \/ ~Truthy(session_cookie(req)) THEN
        [status |-> "401", current_user |-> Unset, resolved |-> NotInvoked]
    ELSE IF who = None THEN
        [status |-> "403", current_user |-> who, resolved |-> who]
    ELSE
        [status |-> "handler", current_user |-> who, resolved |-> who]

\* The 0x02 gate resolving the identity before it looks at the path.
handle_authEager(strategy, req, who) ==
    IF strategy = None THEN
        [status |-> "handler", current_user |-> Unset, resolved |-> NotInvoked]
    ELSE IF ~require_auth(strategy, req.path, ExcludedPaths("0x02")) THEN
        [status |-> "handler", current_user |-> who, resolved |-> who]
    ELSE IF ~Truthy(authorization_header(req))
            /\ ~Truthy(session_cookie(req)) THEN
        [status |-> "401", current_user |-> Unset, resolved |-> NotInvoked]
    ELSE IF who = None THEN
        [status |-> "403", current_user |-> who, resolved |-> who]
    ELSE
        [status |-> "handler", current_user |-> who, resolved |-> who]

\* The 0x02 gate without its last check: nobody is turned away with 403.
handle_authNoForbidden(strategy, req, who) ==
    IF strategy = None THEN
        [status |-> "handler", current_user |-> Unset, resolved |-> NotInvoked]
    ELSE IF ~require_auth(strategy, req.path, ExcludedPaths("0x02")) THEN
        [status |-> "handler", current_user |-> Unset, resolved |-> NotInvoked]
    ELSE IF ~Truthy(authorization_header(req))
            /\ ~Truthy(session_cookie(req)) THEN
        [status |-> "401", current_user |-> Unset, resolved |-> NotInvoked]
    ELSE
        [status |-> "handler", current_user |-> who, resolved |-> who]

\* The 0x02 gate taking a session cookie for an identity: a request with
\* a cookie is let through whoever it resolves to.
handle_authTrustCookie(strategy, req, who) ==
    IF strategy = None THEN
        [status |-> "handler", current_user |-> Unset, resolved |-> NotInvoked]
    ELSE IF ~require_auth(strategy, req.path, ExcludedPaths("0x02")) THEN
        [status |-> "handler", current_user |-> Unset, resolved |-> NotInvoked]
    ELSE IF ~Truthy(authorization_header(req))
            /\ ~Truthy(session_cookie(req)) THEN
        [status |-> "401", current_user |-> Unset, resolved |-> NotInvoked]
    ELSE IF who = None /\ ~Truthy(session_cookie(req)) THEN
        [status |-> "403", current_user |-> who, resolved |-> who]
    ELSE
        [status |-> "handler", current_user |-> who, resolved |-> who]

\* handle_auth of 0x02: what becomes of the request, `who` being what
\* auth.current_user(request) answers if it is asked.
handle_auth(strategy, req, who) ==
    IF strategy = None THEN
        [status |-> "handler", current_user |-> Unset, resolved |-> NotInvoked]
    ELSE IF ~require_auth(strategy, req.path, ExcludedPaths("0x02")) THEN
        [status |-> "handler", current_user |-> Unset, resolved |-> NotInvoked]
    ELSE IF ~Truthy(authorization_header(req))
            /\ ~Truthy(session_cookie(req)) THEN
        [status |-> "401", current_user |-> Unset, resolved |-> NotInvoked]
    ELSE IF who = None THEN
        [status |-> "403", current_user |-> who, resolved |-> who]
    ELSE
        [status |-> "handler", current_user |-> who, resolved |-> who]

\* handle_auth of 0x01: only the Authorization header is looked at, and
\* the identity is not attached to the request.
handle_auth_0x01(strategy, req, who) ==
    IF strategy = None THEN
        [status |-> "handler", current_user |-> Unset, resolved |-> NotInvoked]
    ELSE IF ~require_auth(strategy, req.path, ExcludedPaths("0x01")) THEN
        [status |-> "handler", current_user |-> Unset, resolved |-> NotInvoked]
    ELSE IF ~Truthy(authorization_header(req)) THEN
        [status |-> "401", current_user |-> Unset, resolved |-> NotInvoked]
    ELSE IF who = None THEN
        [status |-> "403", current_user |-> Unset, resolved |-> who]
    ELSE
        [status |-> "handler", current_user |-> Unset, resolved |-> who]

\* What a request may carry.
Paths == {"/api/v1/status/", "/api/v1/users", "/api/v1/auth_session/login/"}
Headers == {None, "", "Basic YUBiLmNvbTpzZWNyZXQ=",
            "Basic YUBiLmNvbTp3cm9uZw==", "Bearer abc"}
Cookies == {None, "", "no-such-session"}
                \cup {uuid4(i) : i \in 0..(MaxUuids - 1)}
Requests ==
    [path : Paths, authorization : Headers, cookie : Cookies]

\* The application starts: AUTH_TYPE selects a strategy or none.
InitGate ==
    /\ DATA = EmptyDict
    /\ files = [c \in Classes |-> NoFile]
    /\ now = 0
    /\ uuids = 0
    /\ cur = NoCur
    /\ curStored = FALSE
    /\ plain = NoPlain
    /\ last = Op("init", None, None, None, None)
    /\ app \in {"0x01", "0x02"}
    /\ auth \in AuthTypes(app) \cup {None}
    /\ sessions = EmptyDict
    /\ request = NoRequest
    /\ peer = EmptyDict

\* A request comes in and before_request runs handle_auth on it.
BeforeRequest(req) ==
    /\ \E who \in current_user(auth, req, DATA, sessions) :
          LET out == IF app = "0x01" THEN handle_auth_0x01(auth, req, who)
                                     ELSE handle_auth(auth, req, who)
          IN  request' = [path |-> req.path,
                          authorization |-> req.authorization,
                          cookie |-> req.cookie,
                          status |-> out.status,
                          current_user |-> out.current_user,
                          resolved |-> out.resolved]
    /\ last' = Op("handle_auth", None, None, None, None)
    /\ plain' = NoPlain
    /\ UNCHANGED <<DATA, files, now, uuids, cur, curStored,
                   app, auth, sessions, peer>>

\* The login view creates a session for a stored user (session strategy).
CreateSession(user_id) ==
    /\ auth = "session_auth"
    /\ user_id \in UserIds(DATA)
    /\ uuids < MaxUuids
    /\ sessions' = create_session(sessions, user_id, uuid4(uuids))
    /\ uuids' = uuids + 1
    /\ last' = Op("create_session", None, user_id, None, uuid4(uuids))
    /\ plain' = NoPlain
    /\ UNCHANGED <<DATA, files, now, cur, curStored, app, auth, request,
                   peer>>

\* The logout view: destroy_session of the session strategy on a request.
DestroySession(req) ==
    /\ auth = "session_auth"
    /\ LET r == destroy_session(sessions, req) IN
        /\ sessions' = r.S
        /\ last' = Op("destroy_session", None, None, req.cookie,
                      IF r.ok THEN "True" ELSE "False")
    /\ plain' = NoPlain
    /\ UNCHANGED <<DATA, files, now, uuids, cur, curStored, app, auth,
                   request, peer>>

\* The session id SessionDBAuth hands out with the entity of id uuid: a
\* uuid4 value of its own, distinct for distinct entities.
SessionToken(uuid) == "sid:" \o uuid

\* The login view under SessionDBAuth: a session entity for a stored user.
CreateSessionDB(user_id) ==
    /\ auth = "session_db_auth"
    /\ user_id \in UserIds(DATA)
    /\ uuids < MaxUuids
    /\ LET r == db_create_session(DATA, files, user_id,
                                  SessionToken(uuid4(uuids)), uuid4(uuids),
                                  now)
       IN  /\ DATA' = r.DATA
           /\ files' = r.files
    /\ uuids' = uuids + 1
    /\ last' = Op("create_session", "UserSession", user_id, None,
                  SessionToken(uuid4(uuids)))
    /\ plain' = NoPlain
    /\ UNCHANGED <<now, cur, curStored, gateVars>>

\* The logout view under SessionDBAuth.
DestroySessionDB(req) ==
    /\ auth = "session_db_auth"
    /\ LET r == db_destroy_session(DATA, files, req, now) IN
        /\ DATA' = r.DATA
        /\ files' = r.files
        /\ last' = Op("destroy_session", "UserSession", None, req.cookie,
                      IF r.ok THEN "True" ELSE "False")
    /\ plain' = NoPlain
    /\ UNCHANGED <<now, uuids, cur, curStored, gateVars>>

\* The process ends and a new one starts: DATA and the strategy's map are
\* empty again, no object is held, and each class is loaded from its file.
Restart ==
    /\ DATA' = load_from_file(app,
                    load_from_file(app, EmptyDict, files, "User",
                                   uuid4(uuids), now),
                    files, "UserSession", uuid4(uuids), now)
    /\ sessions' = EmptyDict
    /\ cur' = NoCur
    /\ curStored' = FALSE
    /\ request' = NoRequest
    /\ last' = Op("restart", None, None, None, None)
    /\ plain' = NoPlain
    /\ UNCHANGED <<files, now, uuids, app, auth, peer>>

\* The process ends and a new one imports models.base and loads nothing:
\* DATA is empty, no object is held, the files are as the old process left
\* them.
NewProcess ==
    /\ DATA' = EmptyDict
    /\ cur' = NoCur
    /\ curStored' = FALSE
    /\ last' = Op("new_process", None, None, None, None)
    /\ plain' = NoPlain
    /\ UNCHANGED <<files, now, uuids, gateVars>>

\* The second process builds a user and saves it: its own map, the shared
\* file.
PeerSave(kwargs) ==
    /\ uuids < MaxUuids
    /\ LET o == User__init__(kwargs, uuid4(uuids), now)
           r == save(EnsureClass(peer, "User"), files, "User", o, now)
       IN  /\ peer' = r.DATA
           /\ files' = r.files
           /\ last' = Op("peer_save", "User", o["id"], None, "ok")
    /\ uuids' = uuids + 1
    /\ plain' = NoPlain
    /\ UNCHANGED <<DATA, now, cur, curStored, app, auth, sessions, request>>

\* The second process loads the class from the shared file.
PeerLoad(cls) ==
    /\ peer' = load_from_file(app, peer, files, cls, uuid4(uuids), now)
    /\ last' = Op("peer_load", cls, None, None, "ok")
    /\ plain' = NoPlain
    /\ UNCHANGED <<DATA, files, now, uuids, cur, curStored, app, auth,
                   sessions, request>>

\* Whatever is not a timestamp of TIMESTAMP_FORMAT.
NotADate == "yesterday"
\* The file of a class is edited outside the program: the created_at of one
\* record no longer parses.
CorruptRecord(cls, id) ==
    /\ id \in DOMAIN files[cls].content
    /\ ~InitRaises(files[cls].content[id])
    /\ files' = [files EXCEPT ![cls].content[id]["created_at"] = NotADate]
    /\ last' = Op("corrupt", cls, id, None, None)
    /\ plain' = NoPlain
    /\ UNCHANGED <<DATA, now, uuids, cur, curStored, gateVars>>

\* ----------------------------------------------------------- specification

\* The object store: entities are built, saved, removed and reloaded and
\* users are deleted through DELETE /users/:id, as the clock advances.
StoreKwargs == { [email |-> "a@b.com", password |-> "secret",
                  first_name |-> None, last_name |-> None] }

Next ==
    \/ Tick
    \/ \E kw \in StoreKwargs : NewUser(kw)
    \/ \E kw \in SessionKwargs : NewUserSession(kw)
    \/ SetPassword("secret")
    \/ Save
    \/ Remove
    \/ \E cls \in Classes : LoadFromFile(cls)
    \/ \E id \in RequestIds : delete_user(id)

Spec == Init /\ [][Next]_vars

\* The User entity and its password: users are built by the constructor
\* and by POST /users, passwords are set and checked, users are saved and
\* reloaded.
NextUser ==
    \/ \E kw \in UserKwargs : NewUser(kw)
    \/ \E pwd \in SetterValues : SetPassword(pwd)
    \/ \E pwd \in PasswordValues : CheckPassword(pwd)
    \/ Save
    \/ \E id \in RequestIds : Get("User", id)
    \/ LoadFromFile("User")
    \/ \E rj \in CreateBodies : create_user(rj, TRUE)

SpecUser == Init /\ [][NextUser]_vars

\* The request gate: users are built, given a password and saved, sessions
\* are created, and requests go through handle_auth.
NextGate ==
    \/ \E kw \in StoreKwargs : NewUser(kw)
    \/ SetPassword("secret")
    \/ Save
    \/ \E id \in RequestIds : CreateSession(id)
    \/ \E req \in Requests : BeforeRequest(req)

SpecGate == InitGate /\ [][NextGate]_vars

\* A process of application a starts with the strategy s selected, no
\* class loaded and no file written.
Start(a, s) ==
    /\ DATA = EmptyDict
    /\ files = [c \in Classes |-> NoFile]
    /\ now = 0
    /\ uuids = 0
    /\ cur = NoCur
    /\ curStored = FALSE
    /\ plain = NoPlain
    /\ last = Op("init", None, None, None, None)
    /\ app = a
    /\ auth = s
    /\ sessions = EmptyDict
    /\ request = NoRequest
    /\ peer = EmptyDict

Apps == {"0x01", "0x02"}

\* Searching: users that differ in email and first name are built, saved,
\* removed and reloaded, and the class is searched, in either application.
SearchKwargs ==
    { [email |-> e, password |-> "secret", first_name |-> f,
       last_name |-> None] : e \in {"a@b.com", "c@d.com"}, f \in {None, "Bob"} }
SearchAttributes ==
    { EmptyDict, [email |-> "a@b.com"], [first_name |-> "Bob"],
      [first_name |-> None], [email |-> "a@b.com", first_name |-> "Bob"] }

InitSearch == \E a \in Apps : Start(a, None)

NextSearch ==
    \/ \E kw \in SearchKwargs : NewUser(kw)
    \/ Save
    \/ Remove
    \/ LoadFromFile("User")
    \/ \E attributes \in SearchAttributes : Search("User", attributes)

SpecSearch == InitSearch /\ [][NextSearch]_vars

\* Identity and timestamps: users are built, also with an updated_at of
\* their own, saved, removed and reloaded, and created, updated and deleted
\* through the /users endpoints, as the clock advances.
CrudKwargs ==
    StoreKwargs \cup
    { [email |-> "a@b.com", password |-> "secret", first_name |-> None,
       last_name |-> None, updated_at |-> TsString[Len(TsString)]] }

NextCrud ==
    \/ Tick
    \/ \E kw \in CrudKwargs : NewUser(kw)
    \/ Save
    \/ Remove
    \/ LoadFromFile("User")
    \/ create_user([email |-> "a@b.com", password |-> "secret"], TRUE)
    \/ \E id \in RequestIds : update_user(id, [first_name |-> "Bob"], TRUE)
    \/ \E id \in RequestIds : delete_user(id)

SpecCrud == Init /\ [][NextCrud]_vars

\* The /users/:id endpoints behind the 0x02 gate, under each strategy and
\* under none.
UserPathIds == RequestIds \cup {"me"}
ApiRequests ==
    [path : {"/api/v1/users/" \o id : id \in UserPathIds},
     authorization : {None, "Basic YUBiLmNvbTpzZWNyZXQ="},
     cookie : {None, uuid4(1)}]

InitApi == \E s \in AuthTypes("0x02") \cup {None} : Start("0x02", s)

NextApi ==
    \/ \E kw \in StoreKwargs : NewUser(kw)
    \/ SetPassword("secret")
    \/ Save
    \/ \E id \in RequestIds : CreateSession(id)
    \/ \E req \in ApiRequests : BeforeRequest(req)
    \/ \E id \in UserPathIds : view_one_user(id)
    \/ \E id \in RequestIds : update_user(id, [first_name |-> "Bob"], TRUE)
    \/ \E id \in RequestIds : delete_user(id)
    \/ \E id \in RequestIds : Get("User", id)

SpecApi == InitApi /\ [][NextApi]_vars

\* Display names: users with every combination of email, first name and
\* last name, in either application.
NameKwargs ==
    { [email |-> e, password |-> "secret", first_name |-> f, last_name |-> l] :
        e \in {None, "", "a@b.com"}, f \in {None, "", "Bob"},
        l \in {None, "", "Lee"} }

InitName == \E a \in Apps : Start(a, None)

NextName ==
    \/ \E kw \in NameKwargs : NewUser(kw)
    \/ DisplayName

SpecName == InitName /\ [][NextName]_vars

\* The two User classes side by side: the same users are built and both
\* display_name methods are asked.
NextNames ==
    \/ \E kw \in NameKwargs : NewUser(kw)
    \/ DisplayNameBoth

SpecNames == InitName /\ [][NextNames]_vars

\* Sessions of the session strategy: users are stored, sessions created
\* and destroyed, and requests with session cookies go through the gate.
SessionRequests ==
    [path : {"/api/v1/users"}, authorization : {None},
     cookie : {None, "no-such-session"}
                \cup {uuid4(i) : i \in 0..(MaxUuids - 1)}]

InitSession == Start("0x02", "session_auth")

NextSession ==
    \/ \E kw \in StoreKwargs : NewUser(kw)
    \/ Save
    \/ \E id \in RequestIds : CreateSession(id)
    \/ \E req \in SessionRequests : DestroySession(req)
    \/ \E req \in SessionRequests : BeforeRequest(req)

SpecSession == InitSession /\ [][NextSession]_vars

\* Sessions kept in the store: sessions are created and destroyed as
\* entities, the clock runs past the session duration, and the process
\* restarts.
DBHorizon == session_duration + TicksPerSecond
DBRequests ==
    [path : {"/api/v1/users"}, authorization : {None},
     cookie : {None} \cup {SessionToken(uuid4(i)) : i \in 0..(MaxUuids - 1)}]

InitDB == Start("0x02", "session_db_auth")

NextDB ==
    \/ TickTo(DBHorizon)
    \/ \E kw \in StoreKwargs : NewUser(kw)
    \/ Save
    \/ \E id \in RequestIds : CreateSessionDB(id)
    \/ \E req \in DBRequests : DestroySessionDB(req)
    \/ Restart

SpecDB == InitDB /\ [][NextDB]_vars

\* Two processes on one file: each builds and saves users and loads the
\* class, in any order, as the clock advances.
NextShared ==
    \/ Tick
    \/ \E kw \in StoreKwargs : NewUser(kw)
    \/ Save
    \/ LoadFromFile("User")
    \/ \E kw \in StoreKwargs : PeerSave(kw)
    \/ PeerLoad("User")

SpecShared == Init /\ [][NextShared]_vars

\* Saving while the file may be unwritable, directly and through POST and
\* PUT /users.
NextWrite ==
    \/ \E kw \in StoreKwargs : NewUser(kw)
    \/ Save
    \/ SaveUnwritable
    \/ \E w \in BOOLEAN :
          create_user([email |-> "a@b.com", password |-> "secret"], w)
    \/ \E id \in RequestIds, w \in BOOLEAN :
          update_user(id, [first_name |-> "Bob"], w)
    \/ LoadFromFile("User")

SpecWrite == Init /\ [][NextWrite]_vars

\* One process after another on the same files: each builds, saves and
\* removes users and may or may not load the class before it saves.
NextProcess ==
    \/ Tick
    \/ \E kw \in StoreKwargs : NewUser(kw)
    \/ Save
    \/ Remove
    \/ LoadFromFile("User")
    \/ NewProcess

SpecProcess == Init /\ [][NextProcess]_vars

\* PUT /users/:id: users are created through POST /users and updated with
\* bodies that name the last name, both names, neither or nothing, while
\* the file may be unwritable and the clock advances within its first
\* second.
PutBodies ==
    { EmptyDict,
      [last_name |-> "Lee"],
      [first_name |-> "Bob", last_name |-> "Lee"],
      [email |-> "c@d.com", _password |-> "other"] }

NextPut ==
    \/ TickTo(TicksPerSecond - 1)
    \/ create_user([email |-> "a@b.com", password |-> "secret"], TRUE)
    \/ \E id \in RequestIds, rj \in PutBodies : update_user(id, rj, TRUE)
    \/ \E id \in RequestIds :
          update_user(id, [first_name |-> "Bob", last_name |-> "Lee"], FALSE)

SpecPut == Init /\ [][NextPut]_vars

\* Timestamps that do not parse: given to the constructor, and found by
\* load_from_file in a file edited outside the program, in either
\* application.
LoadKwargs ==
    StoreKwargs \cup
    { [email |-> "a@b.com", password |-> "secret", first_name |-> None,
       last_name |-> None, created_at |-> NotADate],
      [email |-> "a@b.com", password |-> "secret", first_name |-> None,
       last_name |-> None, updated_at |-> NotADate] }

InitLoad == \E a \in Apps : Start(a, None)

NextLoad ==
    \/ Tick
    \/ \E kw \in LoadKwargs : NewUser(kw)
    \/ Save
    \/ \E id \in RequestIds : CorruptRecord("User", id)
    \/ LoadFromFile("User")

SpecLoad == InitLoad /\ [][NextLoad]_vars


\* ------------------------------------------------------------------ claims

\* The digests of the passwords callers supply.
Digests == {sha256(p) : p \in Passwords}
\* Base.save_to_file's JSON object for the map m of a class.
Serialized(m) == [id \in DOMAIN m |-> to_json(m[id], TRUE)]
\* Every stored password value: of the users in memory, of the held user
\* and of the users in the file.
StoredPasswords ==
    (IF "User" \in DOMAIN DATA
     THEN {DATA["User"][id]["_password"] : id \in DOMAIN DATA["User"]} ELSE {})
    \cup (IF cur.cls = "User" THEN {cur.o["_password"]} ELSE {})
    \cup {files["User"].content[id]["_password"] :
            id \in DOMAIN files["User"].content}

\* Whether the strategy asks for authentication on the path of the request
\* the gate handled: a strategy is configured and the path is not excluded.
GateRequired ==
    auth /= None /\ require_auth(auth, request.path, ExcludedPaths(app))
\* What the configured strategy resolves for the request the gate handled.
Resolves == current_user(auth, request, DATA, sessions)

\* C1 as stated: on a non-excluded path with a strategy configured, a
\* request with neither an Authorization header nor a session cookie is
\* rejected with 401 before any identity resolution, and a request with
\* either of them whose identity is not resolved is rejected with 403.
C1_Original ==
    (last.op = "handle_auth" /\ GateRequired) =>
        IF ~Truthy(request.authorization) /\ ~Truthy(request.cookie)
        THEN request.status = "401" /\ request.resolved = NotInvoked
        ELSE (Resolves = {None}) => request.status = "403"

\* The credentials each gate looks at: 0x02 a non-empty Authorization
\* header or session cookie, 0x01 a non-empty Authorization header.
CredentialSeen ==
    IF app = "0x01" THEN Truthy(request.authorization)
    ELSE Truthy(request.authorization) \/ Truthy(request.cookie)

\* C1 as amended: on a non-excluded path with a strategy configured, a
\* request without a credential the gate looks at (0x02: non-empty
\* Authorization header or session cookie; 0x01: non-empty Authorization
\* header alone) is rejected with 401 before any identity resolution, and
\* one with such a credential whose identity is not resolved with 403.
C1_RejectionClasses ==
    (last.op = "handle_auth" /\ GateRequired) =>
        IF ~CredentialSeen
        THEN request.status = "401" /\ request.resolved = NotInvoked
        ELSE (Resolves = {None}) => request.status = "403"

\* C1 witness: the 0x02 gate turned away with 403 a request that carried
\* only a session cookie, which resolved to nobody.
C1_Witness ==
    /\ last.op = "handle_auth"
    /\ app = "0x02"
    /\ GateRequired
    /\ ~Truthy(request.authorization)
    /\ Truthy(request.cookie)
    /\ request.resolved = None
    /\ request.status = "403"

\* C2: with no strategy configured, or on an excluded path, the request
\* reaches its handler whatever header and cookie it carries, and the
\* strategy is not asked for an identity.
C2_Bypass ==
    (last.op = "handle_auth"
        /\ (auth = None \/ request.path \in ExcludedPaths(app))) =>
        (request.status = "handler" /\ request.resolved = NotInvoked)

\* C2 witness: a request for an excluded path went through under a
\* configured strategy although its header carries credentials of a user
\* the strategy would resolve.
C2_Witness ==
    /\ last.op = "handle_auth"
    /\ auth = "basic_auth"
    /\ request.path \in ExcludedPaths(app)
    /\ Resolves /= {None}
    /\ request.status = "handler"
    /\ request.resolved = NotInvoked

\* C3: when the 0x02 gate lets a request for a non-excluded path through
\* under a configured strategy, request.current_user is the identity the
\* strategy resolved for the request, and it is not None.
C3_IdentityAttached ==
    (last.op = "handle_auth" /\ app = "0x02" /\ GateRequired
        /\ request.status = "handler") =>
        /\ request.current_user \in Resolves
        /\ request.current_user = request.resolved
        /\ request.current_user \notin {None, Unset, NotInvoked}

\* C3 witness: a request carrying the cookie of a session went through
\* with the session's user attached.
C3_Witness ==
    /\ last.op = "handle_auth"
    /\ app = "0x02"
    /\ auth = "session_auth"
    /\ GateRequired
    /\ request.status = "handler"
    /\ request.cookie \in DOMAIN sessions
    /\ request.current_user = sessions[request.cookie]

\* C4: a User built by User(email=..., password=P) answers
\* is_valid_password(P) with true, and is_valid_password(C) with false for
\* every candidate C other than P.
C4_ConstructorPassword ==
    (last.op = "is_valid_password" /\ plain.via = "ctor") =>
        ((last.res = "True") <=> (last.arg = plain.pwd))

\* C5: after the password setter was handed P, is_valid_password(C) is true
\* exactly when P and C are strings and C = P; it is false for every
\* candidate that is not a string and whenever the stored hash is None.
C5_SetterThenCheck ==
    /\ (last.op = "is_valid_password" /\ plain.via = "setter") =>
         ((last.res = "True") <=>
            (IsStr(plain.pwd) /\ IsStr(last.arg) /\ last.arg = plain.pwd))
    /\ (last.op = "is_valid_password"
            /\ (~IsStr(last.arg) \/ cur.o["_password"] = None)) =>
         last.res = "False"

\* C5 witness: the setter was handed a string and the same string is
\* accepted.
C5_Witness ==
    /\ last.op = "is_valid_password"
    /\ plain.via = "setter"
    /\ IsStr(plain.pwd)
    /\ last.arg = plain.pwd
    /\ last.res = "True"

\* C6: every stored password is None or a digest, never a plaintext a
\* caller supplied; the setter handed a non-string leaves None and
\* completes.
C6_DigestOrNone ==
    /\ \A h \in StoredPasswords : h = None \/ (h \in Digests /\ h \notin Passwords)
    /\ (last.op = "set_password" /\ ~IsStr(last.arg)) =>
         (cur.o["_password"] = None /\ last.res = "ok")

\* C6 witness: a user whose password was set is stored, with a digest, and
\* another user was just built from a plaintext password.
C6_Witness ==
    /\ "User" \in DOMAIN DATA
    /\ \E id \in DOMAIN DATA["User"] : DATA["User"][id]["_password"] \in Digests
    /\ last.op = "new"
    /\ plain.via = "ctor"
    /\ plain.pwd \in Passwords

\* Whether the file of cls holds exactly the serialization of the map D[cls].
FileMatches(D, F, cls) ==
    F[cls] = [exists |-> TRUE, content |-> Serialized(D[cls])]

\* C7: after save(e), get(e.id) is e, the entry was inserted if it was
\* absent and overwritten if present (the count grows by one only in the
\* first case), and the file is the serialization of the whole map.
C7_SaveStoresAndWrites ==
    [][ last'.op = "save" =>
          LET cls == cur'.cls
              id  == cur'.o["id"]
          IN  /\ id \in DOMAIN DATA'[cls]
              /\ get(DATA', cls, id) = cur'.o
              /\ curStored'
              /\ DOMAIN DATA'[cls] = (DOMAIN DATA[cls]) \cup {id}
              /\ count(DATA', cls) =
                    IF id \in DOMAIN DATA[cls]
                    THEN count(DATA, cls) ELSE count(DATA, cls) + 1
              /\ FileMatches(DATA', files', cls)
              /\ DOMAIN files'[cls].content = DOMAIN DATA'[cls]
      ]_vars

\* C7 witness: a save overwrote an entry of a map that holds two entries.
C7_Witness ==
    /\ last.op = "save"
    /\ last.arg = "present"
    /\ count(DATA, last.cls) = 2
    /\ FileMatches(DATA, files, last.cls)

\* What remove(e) of an object with this id must do to the class cls.
RemoveEffect(cls, id) ==
    IF id \in DOMAIN DATA[cls]
    THEN /\ id \notin DOMAIN DATA'[cls]
         /\ DOMAIN DATA'[cls] = (DOMAIN DATA[cls]) \ {id}
         /\ \A k \in DOMAIN DATA'[cls] : DATA'[cls][k] = DATA[cls][k]
         /\ FileMatches(DATA', files', cls)
    ELSE /\ DATA' = DATA
         /\ files' = files

\* C8: remove(e) of a stored id deletes that entry, leaves every other
\* entry as it was and rewrites the file to match the map; remove(e) of an
\* id that is not stored changes neither the map nor the file. DELETE
\* /users/:id removes the user it found in the same way.
C8_RemoveFrame ==
    [][ /\ last'.op = "remove" => RemoveEffect(cur.cls, cur.o["id"])
        /\ (last'.op = "delete_user" /\ last'.res = "200") =>
              (last'.id \in DOMAIN DATA["User"]
                  /\ RemoveEffect("User", last'.id))
      ]_vars

\* C8 witness: a stored entry was removed and another entry of the class
\* is still stored.
C8_Witness ==
    /\ last.op = "remove"
    /\ last.arg = "present"
    /\ cur.o["id"] \notin DOMAIN DATA[cur.cls]
    /\ count(DATA, cur.cls) >= 1

SameToTheSecond(a, b) ==
    /\ DOMAIN a = DOMAIN b
    /\ \A k \in DOMAIN a :
          IF k \in DatetimeKeys
          THEN a[k] \div TicksPerSecond = b[k] \div TicksPerSecond
          ELSE a[k] = b[k]

\* C10: a load_from_file that follows a save of the class reproduces the
\* ids of the map and, for each id, every attribute value, the timestamps
\* to the second.
C10_RoundTrip ==
    [][ (last.op = "save" /\ last'.op = "load_from_file"
            /\ last'.cls = last.cls) =>
          LET cls == last.cls IN
          /\ DOMAIN DATA'[cls] = DOMAIN DATA[cls]
          /\ \A id \in DOMAIN DATA[cls] :
                SameToTheSecond(DATA'[cls][id], DATA[cls][id])
      ]_vars

\* C10 witness: a load that followed a save brought back a user with its
\* password digest, after the clock had left the first second.
C10_Witness ==
    /\ last.op = "load_from_file"
    /\ last.after = "save"
    /\ last.cls = "User"
    /\ \E id \in DOMAIN DATA["User"] :
          /\ DATA["User"][id]["_password"] \in Digests
          /\ DATA["User"][id]["updated_at"] > 0
          /\ DATA["User"][id]["email"] \in Emails

\* The instances the class cls has stored.
Stored(cls) == {MapOf(DATA, cls)[id] : id \in DOMAIN MapOf(DATA, cls)}
\* Whether the object o has the given value for every given attribute.
Matches(o, attributes) == \A k \in DOMAIN attributes : o[k] = attributes[k]

C12_IdAndUpdatedAt ==
    [][ /\ \A cls \in DOMAIN DATA' : \A id \in DOMAIN DATA'[cls] :
              DATA'[cls][id]["id"] = id
        /\ (cur.cls /= None /\ last'.op \notin {"new", "get"}) =>
              (cur'.cls = cur.cls /\ cur'.o["id"] = cur.o["id"])
        /\ last'.op = "save" =>
              cur'.o["updated_at"] >= cur.o["updated_at"]
        /\ (last'.op = "update_user" /\ last'.res = "200") =>
              DATA'["User"][last'.id]["updated_at"]
                  >= DATA["User"][last'.id]["updated_at"]
      ]_vars

\* C13: looking up an id that is not stored yields None and no error in
\* every reachable state, also before any instance of the class has been
\* built or loaded; GET, PUT and DELETE /users/:id answer 404 for such an
\* id and leave the map and the files as they were.
C13_AbsentNotError ==
    [][ /\ (last'.op = "get" /\ last'.id \notin UserIds(DATA)) =>
              (last'.raised = None /\ last'.res = "None")
        /\ (last'.op \in {"view_one_user", "update_user", "delete_user"}
                /\ last'.id /= "me" /\ last'.id \notin UserIds(DATA)) =>
              /\ last'.raised = None
              /\ last'.res = "404"
              /\ DATA' = DATA
              /\ files' = files
      ]_vars

\* C14: for every request that reaches the handler, with a strategy
\* configured or with none, GET /users/me answers with the identity the
\* gate attached to the request, and with 404 when there is none; it never
\* looks up a stored user by the id "me".
C14_MeIsCurrentUser ==
    (last.op = "view_one_user" /\ last.id = "me") =>
        /\ last.raised = None
        /\ IF request.current_user \in {Unset, None}
           THEN last.res = "404"
           ELSE last.res = "200" /\ last.arg = request.current_user

\* The display name by the priority first+last name > first name > last
\* name > email > empty string, None and "" counting as absent.
NameByPriority(o) ==
    LET present(v) == v /= None /\ v /= "" IN
    CASE present(o["first_name"]) /\ present(o["last_name"]) ->
            o["first_name"] \o " " \o o["last_name"]
      [] present(o["first_name"]) /\ ~present(o["last_name"]) -> o["first_name"]
      [] ~present(o["first_name"]) /\ present(o["last_name"]) -> o["last_name"]
      [] ~present(o["first_name"]) /\ ~present(o["last_name"])
            /\ present(o["email"]) -> o["email"]
      [] OTHER -> ""

\* C15: for every combination of present and absent first_name, last_name
\* and email, display_name of either application is "first last" when both
\* names are present, else the first name, else the last name, else the
\* email, else the empty string.
C15_DisplayNamePriority ==
    last.op = "display_name" => last.res = NameByPriority(cur.o)

\* C15 witness: a user with an email and a last name but an empty first
\* name is displayed by the last name in the 0x02 application.
C15_Witness ==
    /\ last.op = "display_name"
    /\ app = "0x02"
    /\ cur.o["email"] = "a@b.com"
    /\ cur.o["first_name"] = ""
    /\ cur.o["last_name"] = "Lee"
    /\ last.res = "Lee"

\* A request that carries the session id sid in its cookie and nothing else.
WithCookie(sid) ==
    [path |-> "/api/v1/users", authorization |-> None, cookie |-> sid]
\* The uuid4 values drawn so far that are not the id of a mapped session:
\* every session id that was handed out and destroyed is one of them.
Unmapped == {uuid4(k) : k \in 0..(uuids - 1)} \ DOMAIN sessions

\* C16: after create_session(u) returned T, a request carrying T resolves
\* to u for as long as T is mapped; when destroy_session of a request
\* carrying T answers True, T is mapped no more, stays so, and every
\* request carrying it resolves to nobody and is turned away by the gate
\* with 403; destroy_session answers False and changes nothing when the
\* request has no valid session.
C16_SessionLifecycle ==
    [][ /\ last'.op = "create_session" =>
              /\ last'.res \in DOMAIN sessions'
              /\ current_user(auth, WithCookie(last'.res), DATA', sessions')
                    = {last'.id}
        /\ \A T \in DOMAIN sessions' :
              current_user(auth, WithCookie(T), DATA', sessions')
                  = {sessions'[T]}
        /\ (last'.op = "destroy_session" /\ last'.res = "True") =>
              (last'.arg \in DOMAIN sessions
                  /\ last'.arg \notin DOMAIN sessions')
        /\ (last'.op = "destroy_session" /\ last'.res = "False") =>
              (last'.arg \notin DOMAIN sessions /\ sessions' = sessions)
        /\ \A T \in Unmapped :
              /\ T \notin DOMAIN sessions'
              /\ current_user(auth, WithCookie(T), DATA', sessions') = {None}
        /\ (last'.op = "handle_auth" /\ request'.cookie \in Unmapped) =>
              (request'.resolved = None /\ request'.status = "403")
      ]_vars

\* C16 witness: the gate turned away with 403 a request that carries the
\* id of a session that was created for a stored user and then destroyed.
C16_Witness ==
    /\ last.op = "handle_auth"
    /\ uuids = 2
    /\ UserIds(DATA) = {uuid4(0)}
    /\ cur.o["id"] = uuid4(0)
    /\ request.cookie = uuid4(1)
    /\ request.cookie \in Unmapped
    /\ request.resolved = None
    /\ request.status = "403"

\* The whole second a time falls in: what strftime then strptime keep.
WholeSecond(t) == (t \div TicksPerSecond) * TicksPerSecond

\* C17 as stated: under SessionDBAuth, when the process restarts and the
\* store is reloaded from its files, every session that was created for a
\* stored user, was not destroyed and is not older than the duration still
\* resolves its session id to that user.
C17_Original ==
    [][ last'.op = "restart" =>
          \A e \in Stored("UserSession") :
              (e["user_id"] \in UserIds(DATA)
                  /\ now - e["created_at"] <= session_duration) =>
              db_current_user(WithCookie(e["session_id"]), DATA', now')
                  = {e["user_id"]}
      ]_vars

\* C17 as amended: the same, for every session that is not older than the
\* duration counted from the whole second of its creation, which is what
\* the file keeps of created_at.
C17_SurvivesRestart ==
    [][ last'.op = "restart" =>
          \A e \in Stored("UserSession") :
              (e["user_id"] \in UserIds(DATA)
                  /\ now - WholeSecond(e["created_at"]) <= session_duration) =>
              db_current_user(WithCookie(e["session_id"]), DATA', now')
                  = {e["user_id"]}
      ]_vars

\* C17 witness: after a restart, some time after a session was created,
\* the session's id resolves to its user, who is stored.
C17_Witness ==
    /\ last.op = "restart"
    /\ \E e \in Stored("UserSession") :
          /\ now > e["created_at"]
          /\ e["user_id"] \in UserIds(DATA)
          /\ db_current_user(WithCookie(e["session_id"]), DATA, now)
                = {e["user_id"]}

\* C18: with two processes on one file, after a save the file is the
\* serialization of the map of the process that saved, whatever the other
\* process wrote before: an entity only the other process has in its map
\* is not in the file.
C18_LastWriteWins ==
    /\ last.op = "save" =>
          /\ FileMatches(DATA, files, last.cls)
          /\ \A id \in UserIds(peer) \ UserIds(DATA) :
                id \notin DOMAIN files["User"].content
    /\ last.op = "peer_save" =>
          /\ FileMatches(peer, files, "User")
          /\ \A id \in UserIds(DATA) \ UserIds(peer) :
                id \notin DOMAIN files["User"].content

\* C18 witness: the second process saved last, and a user the first
\* process has stored, and had saved to the file, is not in the file.
C18_Witness ==
    /\ last.op = "peer_save"
    /\ curStored
    /\ cur.o["id"] \in UserIds(DATA)
    /\ cur.o["id"] \notin DOMAIN files["User"].content
    /\ UserIds(peer) /= {}

\* Whether the step is a save, direct or inside POST or PUT /users, whose
\* file write failed.
WriteFailed ==
    last'.op \in {"save", "create_user", "update_user"}
        /\ (last'.raised = "OSError" \/ last'.caught = "OSError")
\* The object the step saved: the held one, or the user of the request.
SavedId == IF last'.op = "save" THEN cur'.o["id"] ELSE last'.id
SavedCls == IF last'.op = "save" THEN cur'.cls ELSE "User"
\* The map holds the saved object with the updated_at of the save, the
\* file is as it was before, and an object new to the map is not in it.
MapAheadOfFile ==
    /\ SavedId \in DOMAIN DATA'[SavedCls]
    /\ DATA'[SavedCls][SavedId]["updated_at"] = now
    /\ files' = files
    /\ SavedId \notin DOMAIN MapOf(DATA, SavedCls) =>
          SavedId \notin DOMAIN files'[SavedCls].content

\* C19 as stated: when the file write inside save fails, the failure
\* leaves save and the request that called it uncaught, with no normal
\* response, and the map already holds the entity although the file does
\* not.
C19_Original ==
    [][ WriteFailed =>
          /\ last'.raised = "OSError"
          /\ last'.caught = None
          /\ last'.res = None
          /\ MapAheadOfFile
      ]_vars

\* C19 as amended: when the file write inside save fails, the failure
\* leaves save uncaught; POST /users and PUT /users/:id catch it and answer
\* 400; in each case the map already holds the entity although the file
\* does not.
C19_WriteFailure ==
    [][ WriteFailed =>
          /\ IF last'.op = "save"
             THEN last'.raised = "OSError" /\ last'.caught = None
                    /\ last'.res = None
             ELSE last'.raised = None /\ last'.caught = "OSError"
                    /\ last'.res = "400"
          /\ MapAheadOfFile
      ]_vars

\* C19 witness: POST /users answered 400 after the write failed, and the
\* user it built is in the map and not in the file.
C19_Witness ==
    /\ last.op = "create_user"
    /\ last.caught = "OSError"
    /\ last.res = "400"
    /\ last.id \in UserIds(DATA)
    /\ last.id \notin DOMAIN files["User"].content

\* The records of the file of a class whose created_at or updated_at is
\* not a timestamp.
Unparsable(cls) ==
    {id \in DOMAIN files[cls].content :
        \/ DictGet(files[cls].content[id], "created_at") = NotADate
        \/ DictGet(files[cls].content[id], "updated_at") = NotADate}
\* The records of the file that come before every record of bad.
Before(cls, bad) ==
    {id \in DOMAIN files[cls].content :
        \A b \in bad : IdIndex(id) < IdIndex(b)}

\* C20: a constructor given a malformed created_at or updated_at raises
\* ValueError and builds nothing; load_from_file over a file with such a
\* record raises it too, loads no record at or after the first such record,
\* and keeps nothing of the previous map of the class.
C20_MalformedTimestamp ==
    [][ /\ (last'.op = "new" /\ last'.arg = NotADate) =>
              (last'.raised = "ValueError" /\ cur' = cur /\ files' = files
                 /\ DOMAIN DATA'[last'.cls] = DOMAIN MapOf(DATA, last'.cls))
        /\ (last'.op = "load_from_file" /\ Unparsable(last'.cls) /= {}) =>
              LET cls == last'.cls
                  bad == Unparsable(cls) IN
              /\ last'.raised = "ValueError"
              /\ \A id \in DOMAIN files[cls].content \ Before(cls, bad) :
                    id \notin DOMAIN DATA'[cls]
              /\ \A id \in DOMAIN DATA'[cls] :
                    /\ id \in Before(cls, bad)
                    /\ DATA'[cls][id] =
                         New(cls, files[cls].content[id], uuid4(uuids), now)
              /\ \A id \in DOMAIN MapOf(DATA, cls) \ Before(cls, bad) :
                    id \notin DOMAIN DATA'[cls]
      ]_vars

\* C20 witness: the load of the 0x02 application raised at the second
\* record of the file, after loading the first, and the map no longer has
\* the second.
C20_Witness ==
    /\ app = "0x02"
    /\ last.op = "load_from_file"
    /\ last.raised = "ValueError"
    /\ DOMAIN files["User"].content = {uuid4(0), uuid4(1)}
    /\ Unparsable("User") = {uuid4(1)}
    /\ DOMAIN DATA["User"] = {uuid4(0)}

\* C21 as stated: there is a combination of present and absent first_name,
\* last_name and email, among the users that can be built, on which
\* display_name of 0x01 and of 0x02 differ.
C21_Original ==
    \E kw \in NameKwargs :
        LET o == User__init__(kw, uuid4(uuids), now) IN
        display_name("0x01", o) /= display_name("0x02", o)

\* C21 as amended: on every combination of present and absent first_name,
\* last_name and email, display_name of 0x01 and of 0x02 return the same
\* display name.
C21_SameDisplayName ==
    last.op = "display_names" => last.arg = last.res

\* C21 witness: both classes were asked for a user with an email and both
\* names, and both answered first name then last name.
C21_Witness ==
    /\ last.op = "display_names"
    /\ cur.o["email"] = "a@b.com"
    /\ cur.o["first_name"] = "Bob"
    /\ cur.o["last_name"] = "Lee"
    /\ last.arg = "Bob Lee"
    /\ last.res = "Bob Lee"

\* The fields PUT /users/:id may change.
PutKeys == {"first_name", "last_name", "updated_at"}
\* What every PUT on the user user_id with body rj leaves alone: the set of
\* stored users, every other user, every field of the user outside
\* PutKeys, and each name whose key is not in the body.
PutFrame(user_id, rj) ==
    /\ DOMAIN DATA'["User"] = DOMAIN DATA["User"]
    /\ \A other \in DOMAIN DATA["User"] \ {user_id} :
          DATA'["User"][other] = DATA["User"][other]
    /\ DOMAIN DATA'["User"][user_id] = DOMAIN DATA["User"][user_id]
    /\ \A k \in DOMAIN DATA["User"][user_id] \ PutKeys :
          DATA'["User"][user_id][k] = DATA["User"][user_id][k]
    /\ \A k \in {"first_name", "last_name"} \ DOMAIN rj :
          DATA'["User"][user_id][k] = DATA["User"][user_id][k]
\* A PUT answered 200 has set the names the body gives and updated_at.
PutDone(user_id, rj) ==
    /\ \A k \in {"first_name", "last_name"} \cap DOMAIN rj :
          DATA'["User"][user_id][k] = rj[k]
    /\ DATA'["User"][user_id]["updated_at"] = now

\* C22 as stated: PUT /users/:id changes only first_name and last_name,
\* each only when its key is in the body, and updated_at of the addressed
\* user; its id, email, password digest and created_at and every other
\* stored user are unchanged; a PUT answered with 400 leaves the stored
\* user unchanged.
C22_Original ==
    [][ (last'.op = "update_user" /\ last'.id \in UserIds(DATA)) =>
          /\ PutFrame(last'.id, last'.arg)
          /\ last'.res = "200" => PutDone(last'.id, last'.arg)
          /\ last'.res = "400" =>
                DATA'["User"][last'.id] = DATA["User"][last'.id]
      ]_vars

\* C22 as amended: the same frame; a PUT answered with 400 for an empty
\* body leaves the stored user and the file unchanged, and a PUT answered
\* with 400 because the file write failed has already set the names and
\* updated_at of the user in the map, the file being unchanged.
C22_PutFrame ==
    [][ (last'.op = "update_user" /\ last'.id \in UserIds(DATA)) =>
          /\ PutFrame(last'.id, last'.arg)
          /\ last'.res = "200" => PutDone(last'.id, last'.arg)
          /\ (last'.res = "400" /\ last'.caught = "ValueError") =>
                (DATA' = DATA /\ files' = files)
          /\ (last'.res = "400" /\ last'.caught = "OSError") =>
                (PutDone(last'.id, last'.arg) /\ files' = files)
          /\ last'.res \in {"200", "400"}
      ]_vars

\* C22 witness: with two users stored, a PUT that named only the last name
\* was answered 200; the user has the last name, no first name, and the
\* email and the absent digest POST /users left it with.
C22_Witness ==
    /\ last.op = "update_user"
    /\ last.res = "200"
    /\ last.arg = [last_name |-> "Lee"]
    /\ Cardinality(UserIds(DATA)) = 2
    /\ last.id \in UserIds(DATA)
    /\ DATA["User"][last.id]["last_name"] = "Lee"
    /\ DATA["User"][last.id]["first_name"] = None
    /\ DATA["User"][last.id]["email"] = "a@b.com"
    /\ DATA["User"][last.id]["_password"] = None

\* C23: every id that is in the file of the class before save(e) is in it
\* after, in every process and also when the process has not loaded the
\* class.
C23_SaveKeepsFile ==
    [][ last'.op = "save" =>
          \A id \in DOMAIN files[last'.cls].content :
              id \in DOMAIN files'[last'.cls].content
      ]_vars

\* C24: in every reachable state, every entry key -> object of the map of a
\* class has object.id = key.
C24_KeyIsId ==
    \A cls \in DOMAIN DATA :
        \A key \in DOMAIN DATA[cls] : DATA[cls][key]["id"] = key

\* C24 witness: load_from_file has rebuilt a map of two users, after one of
\* them was updated through PUT /users/:id.
C24_Witness ==
    /\ last.op = "load_from_file"
    /\ Cardinality(UserIds(DATA)) = 2
    /\ \E id \in UserIds(DATA) : DATA["User"][id]["first_name"] = "Bob"

\* C25: save, remove and load_from_file on one class, and DELETE
\* /users/:id, leave the map and the file of every other class as they were;
\* so removing a user removes no UserSession that references its id.
C25_ClassesIsolated ==
    [][ last'.op \in {"save", "remove", "load_from_file", "delete_user"} =>
          \A c \in Classes \ {last'.cls} :
              /\ files'[c] = files[c]
              /\ (c \in DOMAIN DATA') = (c \in DOMAIN DATA)
              /\ c \in DOMAIN DATA => DATA'[c] = DATA[c]
      ]_vars

\* C25 witness: DELETE /users/:id removed a user, and a session that
\* references its id is still in the map and in the file of UserSession.
C25_Witness ==
    /\ last.op = "delete_user"
    /\ last.res = "200"
    /\ last.id \notin UserIds(DATA)
    /\ last.id \notin DOMAIN files["User"].content
    /\ "UserSession" \in DOMAIN DATA
    /\ \E sid \in DOMAIN DATA["UserSession"] :
          /\ DATA["UserSession"][sid]["user_id"] = last.id
          /\ sid \in DOMAIN files["UserSession"].content


====
